---- MODULE Spec2Model ----
(***************************************************************************)
(* The expression evaluator of package expressionparser: Lexer (characters *)
(* to tokens), Parser (recursive descent, tokens to tree) and Eval (tree   *)
(* to float64), driven as main does: NewLexer, NewParser, Parse, Eval.     *)
(*                                                                         *)
(* A text is a sequence of byte values (Go indexes the string by byte and  *)
(* widens each byte to a rune).  The lexer cursor pos is 0-based as in the *)
(* source, so the byte at cursor pos is input[pos + 1] here.               *)
(***************************************************************************)
EXTENDS Integers, Sequences, FiniteSets

\* ------------------------------------------------------------------ bounds

\* Longest text drawn by the specifications that draw arbitrary texts.
MaxLen == 4

\* Most binary operators in a generated grammatical expression (SpecExpr).
MaxOps == 2

\* NextToken calls made after the first EOF token (SpecLex).
MaxExtraCalls == 2

\* ------------------------------------------------------- token types (iota)

EOF == 0
NUMBER == 1
PLUS == 2
MINUS == 3
MULT == 4
DIV == 5
LPAREN == 6
RPAREN == 7
INVALID == 8

\* The characters NextToken switches on, as byte values.
ChPlus == 43
ChMinus == 45
ChStar == 42
ChSlash == 47
ChLParen == 40
ChRParen == 41

\* The value readChar stores in ch at the end of the input.
ChEOF == 0

\* Mutant of IsSpace: only the space is skipped.
IsSpace_OnlyBlank(c) == c = 32

\* unicode.IsSpace for a rune below 256: '\t' '\n' '\v' '\f' '\r' ' ',
\* U+0085 and U+00A0.
IsSpace(c) == c \in {9, 10, 11, 12, 13, 32, 133, 160}

\* unicode.IsDigit for a rune below 256: '0'..'9'.
IsDigit(c) == c \in 48..57

\* Token{Type, Value}.  Value is a byte sequence; for INVALID the source
\* formats "Invalid character: %c", kept here as that prefix mark and the byte.
Token(t, v) == [Type |-> t, Value |-> v]

\* Token{}: the zero value of the struct.
ZeroTok == Token(EOF, <<>>)

\* ------------------------------------------------------------------ Lexer

\* The lexer's mutable fields as a record, for the pure helpers.
LexState(p, c) == [pos |-> p, ch |-> c]

\* Lexer.readChar
readChar(in, l) ==
    LexState(l.pos + 1, IF l.pos >= Len(in) THEN ChEOF ELSE in[l.pos + 1])

\* NewLexer: pos 0, then readChar.
NewLexer(in) == readChar(in, LexState(0, 0))

\* for unicode.IsSpace(l.ch) { l.readChar() }
RECURSIVE SkipSpace(_, _)
SkipSpace(in, l) ==
    IF IsSpace(l.ch) THEN SkipSpace(in, readChar(in, l)) ELSE l

\* for unicode.IsDigit(l.ch) { l.readChar() }
RECURSIVE SkipDigits(_, _)
SkipDigits(in, l) ==
    IF IsDigit(l.ch) THEN SkipDigits(in, readChar(in, l)) ELSE l

\* Lexer.readNumber: the lexer after the digits, and input[start : pos-1].
readNumber(in, l) ==
    LET start == l.pos - 1
        l2 == SkipDigits(in, l)
    IN  [lex |-> l2, str |-> SubSeq(in, start + 1, l2.pos - 1)]

\* The switch of NextToken on l.ch.
CharToken(c) ==
    CASE c = ChPlus -> Token(PLUS, <<c>>)
      [] c = ChMinus -> Token(MINUS, <<c>>)
      [] c = ChStar -> Token(MULT, <<c>>)
      [] c = ChSlash -> Token(DIV, <<c>>)
      [] c = ChLParen -> Token(LPAREN, <<c>>)
      [] c = ChRParen -> Token(RPAREN, <<c>>)
      [] OTHER -> Token(INVALID, <<c>>)

\* Mutant of NextToken: readChar is called at the end of the input as well.
NextToken_EofAdvances(in, l) ==
    LET l1 == SkipSpace(in, l)
    IN  IF l1.ch = ChEOF
        THEN [lex |-> readChar(in, l1), tok |-> Token(EOF, <<>>)]
        ELSE IF IsDigit(l1.ch)
        THEN LET r == readNumber(in, l1)
             IN  [lex |-> r.lex, tok |-> Token(NUMBER, r.str)]
        ELSE [lex |-> readChar(in, l1), tok |-> CharToken(l1.ch)]

\* Mutant of NextToken: the readChar after the switch is missing.
NextToken_KeepsChar(in, l) ==
    LET l1 == SkipSpace(in, l)
    IN  IF l1.ch = ChEOF
        THEN [lex |-> l1, tok |-> Token(EOF, <<>>)]
        ELSE IF IsDigit(l1.ch)
        THEN LET r == readNumber(in, l1)
             IN  [lex |-> r.lex, tok |-> Token(NUMBER, r.str)]
        ELSE [lex |-> l1, tok |-> CharToken(l1.ch)]

\* Lexer.NextToken: the lexer afterwards and the token returned.
NextToken(in, l) ==
    LET l1 == SkipSpace(in, l)
    IN  IF l1.ch = ChEOF
        THEN [lex |-> l1, tok |-> Token(EOF, <<>>)]
        ELSE IF IsDigit(l1.ch)
        THEN LET r == readNumber(in, l1)
             IN  [lex |-> r.lex, tok |-> Token(NUMBER, r.str)]
        ELSE [lex |-> readChar(in, l1), tok |-> CharToken(l1.ch)]

\* ---------------------------------------------------------------- float64

(***************************************************************************)
(* A float64 is kept as the real number n/d it stands for (in lowest terms, *)
(* d > 0) and the flag exact: whether the float64 the program holds is     *)
(* that real number.  IEEE-754 operations are correctly rounded, so the    *)
(* result of an operation on exact operands is exact iff the real result   *)
(* is representable: a dyadic rational with a numerator below 2^53 (every  *)
(* numerator here is below 2^31).  Once a result has been rounded, the     *)
(* real number of what follows is still tracked and exact stays FALSE.     *)
(***************************************************************************)
Abs(x) == IF x < 0 THEN -x ELSE x

RECURSIVE GCD(_, _)
GCD(a, b) == IF b = 0 THEN a ELSE GCD(b, a % b)

RECURSIVE IsPow2(_)
IsPow2(d) == d = 1 \/ (d > 1 /\ d % 2 = 0 /\ IsPow2(d \div 2))

\* The fraction n/d (d # 0) in lowest terms with a positive denominator.
Rat(n, d) ==
    LET sn == IF d < 0 THEN -n ELSE n
        sd == Abs(d)
        g == GCD(Abs(sn), sd)
    IN  [n |-> sn \div g, d |-> sd \div g]

\* The float64 nearest to n/d (d # 0), from operands that were exact or not.
Float(n, d, operandsExact) ==
    [n |-> Rat(n, d).n, d |-> Rat(n, d).d,
     exact |-> operandsExact /\ IsPow2(Rat(n, d).d)]

\* The float64 0 that Eval returns beside an error.
Zero == [n |-> 0, d |-> 1, exact |-> TRUE]

FAdd(a, b) == Float(a.n * b.d + b.n * a.d, a.d * b.d, a.exact /\ b.exact)
FSub(a, b) == Float(a.n * b.d - b.n * a.d, a.d * b.d, a.exact /\ b.exact)
FMul(a, b) == Float(a.n * b.n, a.d * b.d, a.exact /\ b.exact)
FDivide(a, b) == Float(a.n * b.d, a.d * b.n, a.exact /\ b.exact)

\* right == 0.  For a value that is not exact the comparison is decided on
\* the real number it approximates; the two differ only where rounding
\* errors cancel to zero or keep a zero difference from being zero, which
\* takes several rounded quotients in one divisor.
IsZero(a) == a.n = 0

\* The decimal value of a digit string, as strconv reads it.
RECURSIVE DecimalValue(_)
DecimalValue(s) ==
    IF s = <<>> THEN 0
    ELSE 10 * DecimalValue(SubSeq(s, 1, Len(s) - 1)) + (s[Len(s)] - 48)

\* parseNumber: fmt.Sscanf(s, "%f", &num) on an all-digit payload.
parseNumber(s) == Float(DecimalValue(s), 1, TRUE)

\* ------------------------------------------------------- errors and trees

Err(msg, arg) == [msg |-> msg, arg |-> arg]
NoErr == Err("", 0)
ErrClosing == Err("expected closing parenthesis", 0)
ErrExpected(t) == Err("expected a number or parenthesis, got %v", t)
ErrDivZero == Err("division by zero", 0)
ErrUnsupported == Err("unsupported expression type", 0)
ErrInvalidExpr == Err("invalid expression", 0)

\* A nil Expr.
Nil == [kind |-> "nil"]

\* &Number{Value: v}
Number(v) == [kind |-> "num", Value |-> v]

\* Mutant of BinaryOp: the operands are stored the wrong way round.
BinaryOp_Swapped(l, op, r) ==
    [kind |-> "bin", Left |-> r, Op |-> op, Right |-> l]

\* &BinaryOp{Left: l, Op: op, Right: r}
BinaryOp(l, op, r) == [kind |-> "bin", Left |-> l, Op |-> op, Right |-> r]

\* -------------------------------------------------------------- evaluator

\* Mutant of Apply: the zero test looks at the dividend.
Apply_DividendTest(op, left, right) ==
    CASE op.Type = PLUS -> [val |-> FAdd(left, right), err |-> NoErr]
      [] op.Type = MINUS -> [val |-> FSub(left, right), err |-> NoErr]
      [] op.Type = MULT -> [val |-> FMul(left, right), err |-> NoErr]
      [] op.Type = DIV ->
            IF IsZero(left)
            THEN [val |-> Zero, err |-> ErrDivZero]
            ELSE IF IsZero(right)
            THEN [val |-> left, err |-> NoErr]
            ELSE [val |-> FDivide(left, right), err |-> NoErr]
      [] OTHER -> [val |-> Zero, err |-> ErrInvalidExpr]

\* The inner switch of Eval on v.Op.Type, given both operand values.
Apply(op, left, right) ==
    CASE op.Type = PLUS -> [val |-> FAdd(left, right), err |-> NoErr]
      [] op.Type = MINUS -> [val |-> FSub(left, right), err |-> NoErr]
      [] op.Type = MULT -> [val |-> FMul(left, right), err |-> NoErr]
      [] op.Type = DIV ->
            IF IsZero(right)
            THEN [val |-> Zero, err |-> ErrDivZero]
            ELSE [val |-> FDivide(left, right), err |-> NoErr]
      [] OTHER -> [val |-> Zero, err |-> ErrInvalidExpr]

\* Eval: (float64, error).
RECURSIVE Eval(_)
Eval(expr) ==
    CASE expr.kind = "num" -> [val |-> expr.Value, err |-> NoErr]
      [] expr.kind = "bin" ->
            LET l == Eval(expr.Left)
            IN  IF l.err # NoErr THEN [val |-> Zero, err |-> l.err]
                ELSE LET r == Eval(expr.Right)
                     IN  IF r.err # NoErr THEN [val |-> Zero, err |-> r.err]
                         ELSE Apply(expr.Op, l.val, r.val)
      [] OTHER -> [val |-> Zero, err |-> ErrUnsupported]

\* ------------------------------------------------------------------ state

VARIABLES
    input,    \* Lexer.input: the text
    pos,      \* Lexer.pos
    ch,       \* Lexer.ch
    curr,     \* Parser.curr
    stack,    \* the parse functions that are active, innermost first
    ret,      \* what the parse function that returned last returned
    pc,       \* where main (or the lexer's caller) is
    result,   \* what Eval returned to main
    toks,     \* history: the tokens NextToken has returned, in order
    errSnap,  \* history: the parser and lexer at the first parse error
    extra,    \* NextToken calls made after the first EOF token (SpecLex)
    first     \* the outcome of the first run, once a second has begun (SpecWs)

vars == <<input, pos, ch, curr, stack, ret, pc, result, toks, errSnap, extra,
          first>>

\* An activation of parseExpr, parseTerm or parseFactor: its position and
\* its locals left and op.
Frame(fn, at, left, op) == [fn |-> fn, at |-> at, left |-> left, op |-> op]

Call(fn) == Frame(fn, "entry", Nil, ZeroTok)

Top == stack[1]

At(fn, at) == pc = "parsing" /\ stack # <<>> /\ Top.fn = fn /\ Top.at = at

NoSnap == [set |-> FALSE]

NoOutcome == [set |-> FALSE]

NoResult == [val |-> Zero, err |-> NoErr]

\* The state once NewLexer(text) has returned, its caller standing at `at`.
StartAt(text, at) ==
    /\ input = text
    /\ pos = NewLexer(text).pos
    /\ ch = NewLexer(text).ch
    /\ curr = ZeroTok
    /\ stack = <<>>
    /\ ret = [expr |-> Nil, err |-> NoErr]
    /\ pc = at
    /\ result = NoResult
    /\ toks = <<>>
    /\ errSnap = NoSnap
    /\ extra = 0
    /\ first = NoOutcome

\* main once NewLexer(text) has returned.
Start(text) == StartAt(text, "newparser")

\* ----------------------------------------------------------------- Parser

\* Parser.nextToken: p.curr = p.lexer.NextToken()
nextToken ==
    LET r == NextToken(input, LexState(pos, ch))
    IN  /\ pos' = r.lex.pos
        /\ ch' = r.lex.ch
        /\ curr' = r.tok
        /\ toks' = Append(toks, r.tok)

keepToken == UNCHANGED <<pos, ch, curr, toks>>

\* return e, err: the activation ends; the outermost one returns to main
\* through Parse.
Return(e, err) ==
    /\ stack' = Tail(stack)
    /\ ret' = [expr |-> e, err |-> err]
    /\ pc' = IF Len(stack) = 1 THEN "parsed" ELSE pc

\* The activation goes on at `at` with its locals set.
Goto(at, left, op) ==
    /\ stack' = <<Frame(Top.fn, at, left, op)>> \o Tail(stack)
    /\ UNCHANGED <<ret, pc>>

\* The activation calls fn and will go on at `at` when fn returns.
CallFrom(at, fn, left, op) ==
    /\ stack' = <<Call(fn), Frame(Top.fn, at, left, op)>> \o Tail(stack)
    /\ UNCHANGED <<ret, pc>>

\* fmt.Errorf(...) in parseFactor: the first error made is remembered with
\* the parser and lexer as they are then.
Raise(err) ==
    errSnap' = IF errSnap.set THEN errSnap
               ELSE [set |-> TRUE, err |-> err, curr |-> curr, pos |-> pos,
                     ch |-> ch, ntoks |-> Len(toks)]

rest == <<input, result, extra, first>>

\* NewParser: the parser takes its first token.
NewParser ==
    /\ pc = "newparser"
    /\ nextToken
    /\ pc' = "parse"
    /\ UNCHANGED <<stack, ret, errSnap>>
    /\ UNCHANGED rest

\* Parse: return p.parseExpr()
Parse ==
    /\ pc = "parse"
    /\ stack' = <<Call("parseExpr")>>
    /\ pc' = "parsing"
    /\ keepToken
    /\ UNCHANGED <<ret, errSnap>>
    /\ UNCHANGED rest

\* parseExpr: left, err := p.parseTerm()
ParseExprEntry ==
    /\ At("parseExpr", "entry")
    /\ CallFrom("first", "parseTerm", Nil, ZeroTok)
    /\ keepToken
    /\ UNCHANGED errSnap
    /\ UNCHANGED rest

\* parseExpr: if err != nil { return nil, err }
ParseExprFirst ==
    /\ At("parseExpr", "first")
    /\ IF ret.err # NoErr
       THEN Return(Nil, ret.err)
       ELSE Goto("loop", ret.expr, ZeroTok)
    /\ keepToken
    /\ UNCHANGED errSnap
    /\ UNCHANGED rest

\* parseExpr: for p.curr.Type == PLUS || p.curr.Type == MINUS { op := p.curr;
\* p.nextToken(); right, err := p.parseTerm() ... }; return left, nil
ParseExprLoop ==
    /\ At("parseExpr", "loop")
    /\ IF curr.Type = PLUS \/ curr.Type = MINUS
       THEN /\ nextToken
            /\ CallFrom("right", "parseTerm", Top.left, curr)
       ELSE /\ keepToken
            /\ Return(Top.left, NoErr)
    /\ UNCHANGED errSnap
    /\ UNCHANGED rest

\* parseExpr: if err != nil { return nil, err };
\* left = &BinaryOp{Left: left, Op: op, Right: right}
ParseExprRight ==
    /\ At("parseExpr", "right")
    /\ IF ret.err # NoErr
       THEN Return(Nil, ret.err)
       ELSE Goto("loop", BinaryOp(Top.left, Top.op, ret.expr), ZeroTok)
    /\ keepToken
    /\ UNCHANGED errSnap
    /\ UNCHANGED rest

\* parseTerm: left, err := p.parseFactor()
ParseTermEntry ==
    /\ At("parseTerm", "entry")
    /\ CallFrom("first", "parseFactor", Nil, ZeroTok)
    /\ keepToken
    /\ UNCHANGED errSnap
    /\ UNCHANGED rest

\* Mutant of ParseTermFirst: a token is skipped before the error is returned.
ParseTermFirst_Recover ==
    /\ At("parseTerm", "first")
    /\ IF ret.err # NoErr
       THEN /\ nextToken
            /\ Return(Nil, ret.err)
       ELSE /\ keepToken
            /\ Goto("loop", ret.expr, ZeroTok)
    /\ UNCHANGED errSnap
    /\ UNCHANGED rest

\* parseTerm: if err != nil { return nil, err }
ParseTermFirst ==
    /\ At("parseTerm", "first")
    /\ IF ret.err # NoErr
       THEN Return(Nil, ret.err)
       ELSE Goto("loop", ret.expr, ZeroTok)
    /\ keepToken
    /\ UNCHANGED errSnap
    /\ UNCHANGED rest

\* parseTerm: for p.curr.Type == MULT || p.curr.Type == DIV { op := p.curr;
\* p.nextToken(); right, err := p.parseFactor() ... }; return left, nil
ParseTermLoop ==
    /\ At("parseTerm", "loop")
    /\ IF curr.Type = MULT \/ curr.Type = DIV
       THEN /\ nextToken
            /\ CallFrom("right", "parseFactor", Top.left, curr)
       ELSE /\ keepToken
            /\ Return(Top.left, NoErr)
    /\ UNCHANGED errSnap
    /\ UNCHANGED rest

\* parseTerm: if err != nil { return nil, err };
\* left = &BinaryOp{Left: left, Op: op, Right: right}
ParseTermRight ==
    /\ At("parseTerm", "right")
    /\ IF ret.err # NoErr
       THEN Return(Nil, ret.err)
       ELSE Goto("loop", BinaryOp(Top.left, Top.op, ret.expr), ZeroTok)
    /\ keepToken
    /\ UNCHANGED errSnap
    /\ UNCHANGED rest

\* Mutant of ParseFactorEntry: an INVALID token is skipped and read as 0.
ParseFactorEntry_SkipsInvalid ==
    /\ At("parseFactor", "entry")
    /\ CASE curr.Type = NUMBER ->
              /\ nextToken
              /\ Return(Number(parseNumber(curr.Value)), NoErr)
              /\ UNCHANGED errSnap
         [] curr.Type = LPAREN ->
              /\ nextToken
              /\ CallFrom("inner", "parseExpr", Nil, ZeroTok)
              /\ UNCHANGED errSnap
         [] curr.Type = INVALID ->
              /\ nextToken
              /\ Return(Number(Zero), NoErr)
              /\ UNCHANGED errSnap
         [] OTHER ->
              /\ keepToken
              /\ Return(Nil, ErrExpected(curr.Type))
              /\ Raise(ErrExpected(curr.Type))
    /\ UNCHANGED rest

\* parseFactor: switch p.curr.Type, up to the call of parseExpr in case LPAREN.
ParseFactorEntry ==
    /\ At("parseFactor", "entry")
    /\ CASE curr.Type = NUMBER ->
              /\ nextToken
              /\ Return(Number(parseNumber(curr.Value)), NoErr)
              /\ UNCHANGED errSnap
         [] curr.Type = LPAREN ->
              /\ nextToken
              /\ CallFrom("inner", "parseExpr", Nil, ZeroTok)
              /\ UNCHANGED errSnap
         [] OTHER ->
              /\ keepToken
              /\ Return(Nil, ErrExpected(curr.Type))
              /\ Raise(ErrExpected(curr.Type))
    /\ UNCHANGED rest

\* Mutant of ParseFactorInner: the token after the inner expression is
\* consumed without being compared with RPAREN.
ParseFactorInner_NoCheck ==
    /\ At("parseFactor", "inner")
    /\ IF ret.err # NoErr
       THEN /\ keepToken
            /\ Return(Nil, ret.err)
            /\ UNCHANGED errSnap
       ELSE /\ nextToken
            /\ Return(ret.expr, NoErr)
            /\ UNCHANGED errSnap
    /\ UNCHANGED rest

\* parseFactor, case LPAREN, after parseExpr has returned.
ParseFactorInner ==
    /\ At("parseFactor", "inner")
    /\ IF ret.err # NoErr
       THEN /\ keepToken
            /\ Return(Nil, ret.err)
            /\ UNCHANGED errSnap
       ELSE IF curr.Type # RPAREN
       THEN /\ keepToken
            /\ Return(Nil, ErrClosing)
            /\ Raise(ErrClosing)
       ELSE /\ nextToken
            /\ Return(ret.expr, NoErr)
            /\ UNCHANGED errSnap
    /\ UNCHANGED rest

\* main after Parse: an error is printed and main returns; otherwise Eval
\* runs and its result or error is printed.
Main ==
    /\ pc = "parsed"
    /\ pc' = "done"
    /\ result' = IF ret.err # NoErr THEN result ELSE Eval(ret.expr)
    /\ keepToken
    /\ UNCHANGED <<input, stack, ret, errSnap, extra, first>>

\* ------------------------------------------------------------------ texts

\* The texts of length n over the bytes in A.
Texts(A, n) == UNION {[1..k -> A] : k \in 0..n}

\* NUL, space, ( ) * + - / 2 @
Alphabet == {0, 32, 40, 41, 42, 43, 45, 47, 50, 64}

Init == \E text \in Texts(Alphabet, MaxLen) : Start(text)

Next ==
    \/ NewParser
    \/ Parse
    \/ ParseExprEntry
    \/ ParseExprFirst
    \/ ParseExprLoop
    \/ ParseExprRight
    \/ ParseTermEntry
    \/ ParseTermFirst
    \/ ParseTermLoop
    \/ ParseTermRight
    \/ ParseFactorEntry
    \/ ParseFactorInner
    \/ Main

Spec == Init /\ [][Next]_vars

\* ------------------------------------------- grammatical texts (SpecExpr)

\* The literals 0 and 3.
Leaves == {<<48>>, <<51>>}

OpChars == {ChPlus, ChMinus, ChStar, ChSlash}

\* An operation written bare or in parentheses.
Written(l, o, r, paren) ==
    IF paren THEN <<ChLParen>> \o l \o <<o>> \o r \o <<ChRParen>>
    ELSE l \o <<o>> \o r

\* The texts of the grammar with exactly k binary operators, every operation
\* written bare or in parentheses.
RECURSIVE ExprTexts(_)
ExprTexts(k) ==
    IF k = 0 THEN Leaves
    ELSE UNION {{Written(l, o, r, paren) :
                    l \in ExprTexts(i), o \in OpChars,
                    r \in ExprTexts(k - 1 - i), paren \in BOOLEAN} :
                i \in 0..(k - 1)}

\* s with a space before, between and after its bytes; every literal of
\* Leaves is one byte, so no literal is split.
Spread(s) ==
    [i \in 1..(2 * Len(s) + 1) |-> IF i % 2 = 1 THEN 32 ELSE s[i \div 2]]

\* Every text of ExprTexts, written without whitespace and with it.
InitExpr ==
    \E k \in 0..MaxOps : \E text \in ExprTexts(k) :
        Start(text) \/ Start(Spread(text))

SpecExpr == InitExpr /\ [][Next]_vars

\* ----------------------------------------- the value a text stands for

\* The last position of s at or before i, outside every parenthesis, that
\* holds a byte of set; 0 when there is none.  depth counts the parentheses
\* open to the right of i.
RECURSIVE LastTop(_, _, _, _)
LastTop(s, i, depth, set) ==
    IF i = 0 THEN 0
    ELSE IF s[i] = ChRParen THEN LastTop(s, i - 1, depth + 1, set)
    ELSE IF s[i] = ChLParen THEN LastTop(s, i - 1, depth - 1, set)
    ELSE IF depth = 0 /\ s[i] \in set THEN i
    ELSE LastTop(s, i - 1, depth, set)

\* a o b in real arithmetic: def is whether no divisor was zero, exact
\* whether every literal and intermediate result is a dyadic rational.
Combine(o, a, b) ==
    LET def == a.def /\ b.def /\ ~(o = ChSlash /\ b.n = 0)
        q == CASE o = ChPlus -> Rat(a.n * b.d + b.n * a.d, a.d * b.d)
               [] o = ChMinus -> Rat(a.n * b.d - b.n * a.d, a.d * b.d)
               [] o = ChStar -> Rat(a.n * b.n, a.d * b.d)
               [] OTHER -> Rat(a.n * b.d, a.d * b.n)
    IN  IF def
        THEN [n |-> q.n, d |-> q.d, def |-> TRUE,
              exact |-> a.exact /\ b.exact /\ IsPow2(q.d)]
        ELSE [n |-> 0, d |-> 1, def |-> FALSE, exact |-> FALSE]

\* The mathematical value of a text of the grammar written without
\* whitespace: + and - split it at the last one outside parentheses, then
\* * and / do, then parentheses are removed, and what is left is a literal.
RECURSIVE MathValue(_)
MathValue(s) ==
    LET i == LastTop(s, Len(s), 0, {ChPlus, ChMinus})
        j == LastTop(s, Len(s), 0, {ChStar, ChSlash})
        k == IF i > 0 THEN i ELSE j
    IN  IF k > 0
        THEN Combine(s[k], MathValue(SubSeq(s, 1, k - 1)),
                     MathValue(SubSeq(s, k + 1, Len(s))))
        ELSE IF s[1] = ChLParen
        THEN MathValue(SubSeq(s, 2, Len(s) - 1))
        ELSE [n |-> DecimalValue(s), d |-> 1, def |-> TRUE, exact |-> TRUE]

\* The mathematical value of a text of the grammar in which whitespace
\* stands only around tokens.
Meaning(s) == MathValue(SelectSeq(s, LAMBDA c : ~(c \in {9, 10, 11, 12, 13, 32})))

\* The nodes of a tree.
RECURSIVE Nodes(_)
Nodes(e) ==
    IF e.kind = "bin" THEN {e} \cup Nodes(e.Left) \cup Nodes(e.Right)
    ELSE {e}

\* ------------------------------------------------------ the lexer alone

\* The last token NextToken returned is EOF.
AtEOF == toks # <<>> /\ toks[Len(toks)].Type = EOF

\* A caller of Lexer.NextToken that keeps calling, MaxExtraCalls times more
\* once it has been given EOF.
LexCall ==
    /\ pc = "lexing"
    /\ AtEOF => extra < MaxExtraCalls
    /\ nextToken
    /\ extra' = IF AtEOF THEN extra + 1 ELSE extra
    /\ UNCHANGED <<input, stack, ret, pc, result, errSnap, first>>

\* Alphabet and the tab.
LexAlphabet == Alphabet \cup {9}

InitLex == \E text \in Texts(LexAlphabet, MaxLen) : StartAt(text, "lexing")

NextLex == LexCall

SpecLex == InitLex /\ [][NextLex]_vars

\* ----------------------------------------------- two runs of the pipeline

\* The whitespace of the interface: ASCII tab, LF, VT, FF, CR and space.
Whitespace == {9, 10, 11, 12, 13, 32}

RECURSIVE DropSpace(_)
DropSpace(s) ==
    IF s # <<>> /\ s[1] \in Whitespace THEN DropSpace(Tail(s)) ELSE s

\* s with every run of whitespace removed, but for one space kept where the
\* run stands between two digits; prev is the byte before s, 0 at the start.
RECURSIVE Collapse(_, _)
Collapse(s, prev) ==
    IF s = <<>> THEN <<>>
    ELSE IF s[1] \in Whitespace
    THEN LET t == DropSpace(s)
         IN  IF t # <<>> /\ prev \in 48..57 /\ t[1] \in 48..57
             THEN <<32>> \o Collapse(t, 32)
             ELSE Collapse(t, prev)
    ELSE <<s[1]>> \o Collapse(Tail(s), s[1])

\* main run a second time, on the text without its optional whitespace; the
\* first run's tokens and outcome are kept for comparison.
Rerun ==
    /\ pc = "done"
    /\ ~first.set
    /\ first' = [set |-> TRUE, input |-> input, toks |-> toks, ret |-> ret,
                 result |-> result]
    /\ LET text == Collapse(input, 0)
       IN  /\ input' = text
           /\ pos' = NewLexer(text).pos
           /\ ch' = NewLexer(text).ch
    /\ curr' = ZeroTok
    /\ stack' = <<>>
    /\ ret' = [expr |-> Nil, err |-> NoErr]
    /\ pc' = "newparser"
    /\ result' = NoResult
    /\ toks' = <<>>
    /\ errSnap' = NoSnap
    /\ UNCHANGED extra

\* tab, space, ( ) + / 0 3
WsAlphabet == {9, 32, 40, 41, 43, 47, 48, 51}

InitWs == \E text \in Texts(WsAlphabet, MaxLen) : Start(text)

NextWs == Next \/ Rerun

SpecWs == InitWs /\ [][NextWs]_vars

\* main is one sequential thread: while a step is possible it is taken.
FairSpec == Spec /\ WF_vars(Next)

\* ------------------------------------------------- what the claims use

\* Parse has returned to main.
ParseReturned == pc \in {"parsed", "done"}

\* Every token of the text before its first EOF token.
RECURSIVE Tokenize(_, _)
Tokenize(in, l) ==
    LET r == NextToken(in, l)
    IN  IF r.tok.Type = EOF THEN <<>> ELSE <<r.tok>> \o Tokenize(in, r.lex)

\* A token stream as a text with 2 for a number and @ for an invalid token.
Shape(ts) ==
    [i \in 1..Len(ts) |->
        CASE ts[i].Type = NUMBER -> 50
          [] ts[i].Type = INVALID -> 64
          [] OTHER -> ts[i].Value[1]]

\* s matches  expression := term (("+" | "-") term)*,
\* term := factor (("*" | "/") factor)*, factor := NUMBER | "(" expression ")":
\* split at the last + or - outside parentheses, else at the last * or /,
\* else remove one pair of parentheses, else it is one number.
RECURSIVE Grammatical(_)
Grammatical(s) ==
    LET i == LastTop(s, Len(s), 0, {ChPlus, ChMinus})
        j == LastTop(s, Len(s), 0, {ChStar, ChSlash})
        k == IF i > 0 THEN i ELSE j
    IN  /\ s # <<>>
        /\ IF k > 0
           THEN /\ Grammatical(SubSeq(s, 1, k - 1))
                /\ Grammatical(SubSeq(s, k + 1, Len(s)))
           ELSE IF s[1] = ChLParen
           THEN /\ s[Len(s)] = ChRParen
                /\ Grammatical(SubSeq(s, 2, Len(s) - 1))
           ELSE s = <<50>>

\* How many tokens of ts[1..n] have type t.
Count(ts, n, t) == Cardinality({i \in 1..n : ts[i].Type = t})

\* The bytes of the text the tokens of ts were read from.
RECURSIVE Covered(_)
Covered(ts) ==
    IF ts = <<>> THEN 0
    ELSE Covered(Tail(ts))
         + (IF ts[1].Type = EOF THEN 0
            ELSE IF ts[1].Type = NUMBER THEN Len(ts[1].Value) ELSE 1)

\* Some Divide node of e has a right operand that Eval evaluates to 0.
ZeroDivisor(e) ==
    \E x \in Nodes(e) :
        /\ x.kind = "bin"
        /\ x.Op.Type = DIV
        /\ Eval(x.Right).err = NoErr
        /\ Eval(x.Right).val.n = 0

\* ------------------------------------------------------------------ claims

(***************************************************************************)
(* C1, as amended.  For a text of the grammar no divisor of which is zero, *)
(* Parse and Eval return no error and the value of the text under the      *)
(* usual precedence, left-to-right grouping and parentheses; the float64   *)
(* returned is that value exactly whenever every literal and intermediate  *)
(* result is exactly representable.                                        *)
(***************************************************************************)
C1_ValueWhereRepresentable ==
    (pc = "done" /\ Meaning(input).def) =>
        /\ ret.err = NoErr
        /\ result.err = NoErr
        /\ result.val.n = Meaning(input).n
        /\ result.val.d = Meaning(input).d
        /\ Meaning(input).exact => result.val.exact

\* C1 as stated: the float64 returned is the mathematical value of every text
\* of the grammar no divisor of which is zero.
C1_ValueAlwaysExact ==
    (pc = "done" /\ Meaning(input).def) =>
        /\ ret.err = NoErr
        /\ result.err = NoErr
        /\ result.val.n = Meaning(input).n
        /\ result.val.d = Meaning(input).d
        /\ result.val.exact

\* A product whose left operand is a parenthesised sum has been evaluated
\* exactly.
C1_Witness ==
    /\ pc = "done"
    /\ result.err = NoErr
    /\ result.val.exact
    /\ ret.expr.kind = "bin"
    /\ ret.expr.Op.Type = MULT
    /\ ret.expr.Left.kind = "bin"
    /\ ret.expr.Left.Op.Type = PLUS
    /\ result.val.n = 18

(***************************************************************************)
(* C2.  When some Divide node of the tree Parse returned has a right       *)
(* operand that evaluates to 0, Eval returns the division-by-zero error    *)
(* and the number 0, however deep the node is.                             *)
(***************************************************************************)
C2_DivisionByZero ==
    (pc = "done" /\ ret.err = NoErr /\ ZeroDivisor(ret.expr)) =>
        result = [val |-> Zero, err |-> ErrDivZero]

\* A division by zero in the right operand of another operation has been
\* reported.
C2_Witness ==
    /\ pc = "done"
    /\ result = [val |-> Zero, err |-> ErrDivZero]
    /\ ret.expr.kind = "bin"
    /\ ret.expr.Op.Type # DIV
    /\ ret.expr.Right.kind = "bin"
    /\ ret.expr.Right.Op.Type = DIV
    /\ Eval(ret.expr.Right.Right).val.n = 0

(***************************************************************************)
(* C3.  Parse returns a syntax error and no tree for every text whose      *)
(* token stream up to EOF does not match the grammar.                      *)
(***************************************************************************)
C3_ParseRejectsNonGrammatical ==
    (ParseReturned /\ ~Grammatical(Shape(Tokenize(input, NewLexer(input))))) =>
        /\ ret.err # NoErr
        /\ ret.expr = Nil

(***************************************************************************)
(* C4.  When parseFactor starts on a token that is neither NUMBER nor      *)
(* LPAREN it returns no node and the error naming that token type, and     *)
(* Parse returns that error.                                               *)
(***************************************************************************)
C4_FactorRejects ==
    /\ [][(At("parseFactor", "entry") /\ curr.Type \notin {NUMBER, LPAREN}) =>
            /\ ret' = [expr |-> Nil, err |-> ErrExpected(curr.Type)]
            /\ stack' = Tail(stack)
            /\ toks' = toks]_vars
    /\ [](ParseReturned /\ errSnap.set =>
            ret = [expr |-> Nil, err |-> errSnap.err])

\* Parse has failed on an INVALID token that follows a number and a +.
C4_Witness ==
    /\ pc = "parsed"
    /\ ret = [expr |-> Nil, err |-> ErrExpected(INVALID)]
    /\ Len(toks) = 3
    /\ toks[1].Type = NUMBER
    /\ toks[2].Type = PLUS

C6_WhitespaceInsensitive ==
    (pc = "done" /\ first.set) =>
        /\ toks = first.toks
        /\ ret = first.ret
        /\ result = first.result

\* Both runs are over, the first on a text with optional whitespace in it,
\* and an operation has been evaluated.
C6_Witness ==
    /\ pc = "done"
    /\ first.set
    /\ first.input # input
    /\ ret.expr.kind = "bin"
    /\ result.err = NoErr

(***************************************************************************)
(* C7.  From the moment a parse function makes an error, that error and no *)
(* tree is what every parse function returns, and the parser's current     *)
(* token, the lexer's cursor and character and the number of tokens taken  *)
(* stay as they were.                                                      *)
(***************************************************************************)
C7_ErrorsAbort ==
    errSnap.set =>
        /\ ret = [expr |-> Nil, err |-> errSnap.err]
        /\ curr = errSnap.curr
        /\ pos = errSnap.pos
        /\ ch = errSnap.ch
        /\ Len(toks) = errSnap.ntoks

\* An error made inside a parenthesis is on its way out through the
\* enclosing parse functions.
C7_Witness ==
    /\ pc = "parsing"
    /\ errSnap.set
    /\ Len(stack) >= 3
    /\ Top.fn = "parseExpr"
    /\ Top.at = "right"

(***************************************************************************)
(* C8.  A NextToken call that returns EOF leaves the cursor no further     *)
(* than just after the end of the text, and every NextToken call after one *)
(* that returned EOF returns EOF again and moves nothing.                  *)
(***************************************************************************)
C8_EofAbsorbing ==
    /\ [](AtEOF => ch = ChEOF /\ pos <= Len(input) + 1)
    /\ [][AtEOF /\ toks' # toks =>
            /\ curr'.Type = EOF
            /\ pos' = pos
            /\ ch' = ch]_vars

\* NextToken has returned tokens, then EOF, then EOF twice more.
C8_Witness ==
    /\ AtEOF
    /\ extra >= 2
    /\ Len(toks) >= 5
    /\ toks[Len(toks) - 2].Type = EOF

(***************************************************************************)
(* C9.  Parse returns: every NextToken call that returns a token other     *)
(* than EOF moves the cursor forward, every turn of the operator loops and *)
(* every parseFactor that opens a parenthesis takes a token, and the       *)
(* parser reaches the return of Parse.                                     *)
(***************************************************************************)
C9_ParseTerminates ==
    /\ <>ParseReturned
    /\ [][/\ (toks' # toks /\ toks'[Len(toks')].Type # EOF) => pos' > pos
          /\ (pc = "parsing" /\ Len(stack') > Len(stack)
                /\ (Top.at = "loop" \/ Top.fn = "parseFactor")) =>
                Len(toks') > Len(toks)]_vars

\* Parse has returned the tree of an operation after taking its tokens.
C9_Witness ==
    /\ pc = "parsed"
    /\ ret.expr.kind = "bin"
    /\ Len(toks) >= 4

(***************************************************************************)
(* C10.  NextToken returns EOF only once the cursor has passed the last    *)
(* byte of the text, every byte that is not whitespace being part of one   *)
(* token returned before.                                                  *)
(***************************************************************************)
C10_EofOnlyAtEnd ==
    AtEOF =>
        /\ pos = Len(input) + 1
        /\ Covered(toks)
             = Cardinality({i \in 1..Len(input) : ~IsSpace(input[i])})

====
